---- MODULE Spec2Model ----
(***************************************************************************)
(* Piper TTS API (server.py): the /synthesize and /health handlers, the    *)
(* temporary files they create, and the engine subprocess.                 *)
(*                                                                         *)
(* Strings are sequences of tokens [t, n]: a literal piece of text         *)
(* (Lit), a decoded character (Chr, n = its code point), or a random       *)
(* identifier (Uuid, Rand; n = the draw).  The request text is a sequence  *)
(* of runs [ws, n]: n whitespace characters or n other characters.         *)
(*                                                                         *)
(* uuid.uuid4() and tempfile's random names are modelled as fresh draws:   *)
(* the k-th draw differs from every earlier one (the libraries' collision  *)
(* probability is taken to be zero).                                       *)
(***************************************************************************)
EXTENDS Integers, Sequences, FiniteSets, TLC

VARIABLES
    IS_WINDOWS,     \* platform.system() == "Windows", fixed at import
    exc_str,        \* what str(HTTPException) yields in the installed framework
    piper,          \* the engine binary: [exists, x, owned]
    model_exists,   \* whether MODEL_PATH exists
    tmp_files,      \* the temporary directory: set of [path, creator, content]
    out_files,      \* the working directory's output_*.wav: set of [path, creator, size]
    uuids,          \* number of uuid.uuid4() draws so far
    rands,          \* number of tempfile name draws so far
    started,        \* number of /synthesize requests received so far
    req,            \* per worker thread: the /synthesize call it is running
    health          \* the last /health response

vars == <<IS_WINDOWS, exc_str, piper, model_exists, tmp_files, out_files,
          uuids, rands, started, req, health>>

-----------------------------------------------------------------------------
(* Bounds of the model *)

\* longest request text, in runs
MaxRuns == 2

\* worker threads, each serving one /synthesize request, concurrently
Workers == {"w1", "w2"}

-----------------------------------------------------------------------------
(* Program constants *)

MAX_TEXT_LEN == 1000
MIN_SIZE == 1000

-----------------------------------------------------------------------------
(* Strings *)

Lit(s) == [t |-> s, n |-> 0]
Chr(c) == [t |-> "chr", n |-> c]
Uuid(k) == [t |-> "uuid", n |-> k]
Rand(k) == [t |-> "rand", n |-> k]

Contains(s, sub) ==
    \E i \in 0..(Len(s) - Len(sub)) : SubSeq(s, i + 1, i + Len(sub)) = sub

PIPER_PATH ==
    IF IS_WINDOWS THEN <<Lit("C:/Users/User/Documents/piper/piper.exe")>>
    ELSE <<Lit("./piper")>>

MODEL_PATH ==
    IF IS_WINDOWS THEN <<Lit("C:/Users/User/Documents/piper/exported_model.onnx")>>
    ELSE <<Lit("./exported_model.onnx")>>

-----------------------------------------------------------------------------
(* Request texts *)

RunLens == {1, MAX_TEXT_LEN - 1, MAX_TEXT_LEN}
Runs == [ws : BOOLEAN, n : RunLens]
Texts == UNION {[1..k -> Runs] : k \in 0..MaxRuns}

\* the texts sent while two requests run concurrently: "" and one character
ConcurrentTexts == {<<>>, <<[ws |-> FALSE, n |-> 1]>>}

RECURSIVE TextLen(_)
\* len(text)
TextLen(text) ==
    IF text = <<>> THEN 0 ELSE Head(text).n + TextLen(Tail(text))

RECURSIVE LStrip(_)
LStrip(text) ==
    IF text = <<>> THEN <<>>
    ELSE IF Head(text).ws THEN LStrip(Tail(text)) ELSE text

RECURSIVE RStrip(_)
RStrip(text) ==
    IF text = <<>> THEN <<>>
    ELSE IF text[Len(text)].ws THEN RStrip(SubSeq(text, 1, Len(text) - 1)) ELSE text

\* text.strip()
Strip(text) == RStrip(LStrip(text))

IsBlankUnstripped(text) == text = <<>>
\* not text.strip()
IsBlank(text) == Strip(text) = <<>>

TooLongOffByOne(text) == TextLen(text) > MAX_TEXT_LEN + 1
\* len(text) > 1000
TooLong(text) == TextLen(text) > MAX_TEXT_LEN

-----------------------------------------------------------------------------
(* Bytes captured from the engine, and bytes.decode() *)

\* 'a', 0xFF (never valid in UTF-8), and the two bytes of U+00E9
ByteStrings == {<<>>, <<97>>, <<255>>, <<195, 169>>}

RECURSIVE Decode(_)
\* bytes.decode(): strict UTF-8 over one- and two-byte sequences
Decode(b) ==
    IF b = <<>> THEN [ok |-> TRUE, s |-> <<>>]
    ELSE IF b[1] < 128
    THEN LET r == Decode(Tail(b))
         IN  [ok |-> r.ok, s |-> <<Chr(b[1])>> \o r.s]
    ELSE IF b[1] >= 194 /\ b[1] <= 223 /\ Len(b) >= 2 /\ b[2] >= 128 /\ b[2] <= 191
    THEN LET r == Decode(SubSeq(b, 3, Len(b)))
         IN  [ok |-> r.ok, s |-> <<Chr((b[1] - 192) * 64 + (b[2] - 128))>> \o r.s]
    ELSE [ok |-> FALSE, s |-> <<>>]

-----------------------------------------------------------------------------
(* Responses *)

NoPath == <<>>
NoResponse == [status |-> 0, detail |-> <<>>, file |-> NoPath, filename |-> <<>>, handled |-> TRUE]

\* raise HTTPException(status_code, detail), as the framework renders it
HTTPException(status_code, detail) ==
    [status |-> status_code, detail |-> detail, file |-> NoPath, filename |-> <<>>, handled |-> TRUE]

\* an exception that leaves the handler: the framework's 500 page
Unhandled ==
    [status |-> 500, detail |-> <<Lit("Internal Server Error")>>, file |-> NoPath,
     filename |-> <<>>, handled |-> FALSE]

\* FileResponse(output_file, filename=f"speech_{uuid.uuid4().hex[:8]}.wav")
FileResponse(output_file, u) ==
    [status |-> 200, detail |-> <<>>, file |-> output_file,
     filename |-> <<Lit("speech_"), Uuid(u), Lit(".wav")>>, handled |-> TRUE]

\* str(e) of an HTTPException: "" or "<status>: <detail>", by framework version
StrHTTPException(e) ==
    IF exc_str = "empty" THEN <<>>
    ELSE <<Lit(IF e.status = 400 THEN "400: " ELSE "500: ")>> \o e.detail

\* except Exception as e: raise HTTPException(500, f"Error: {str(e)}")
ExceptException(str_e) == HTTPException(500, <<Lit("Error: ")>> \o str_e)

\* an HTTPException raised inside the try block is an Exception: lines 145-146 catch it
RaisedInTry(e) == ExceptException(StrHTTPException(e))

\* except subprocess.TimeoutExpired
ExceptTimeoutExpired == HTTPException(500, <<Lit("Speech synthesis timed out")>>)

\* str(e) of a CalledProcessError
StrCalledProcessError(output_file, code) ==
    <<Lit("Command '["), PIPER_PATH[1], Lit("--model"), MODEL_PATH[1], Lit("--output_file")>>
    \o output_file
    \o <<Lit("]' returned non-zero exit status "), Lit(IF code = 1 THEN "1" ELSE "2"), Lit(".")>>

\* except subprocess.CalledProcessError as e
ExceptCalledProcessError(output_file, code, stderr) ==
    IF stderr # <<>>
    THEN IF Decode(stderr).ok
         THEN HTTPException(500, <<Lit("Piper execution failed: ")>> \o Decode(stderr).s)
         ELSE Unhandled
    ELSE HTTPException(500, <<Lit("Piper execution failed: ")>>
                             \o StrCalledProcessError(output_file, code))

OutputFileNameShared(u) == <<Lit("output_"), Lit(".wav")>>
\* f"output_{uuid.uuid4()}.wav"
OutputFileName(u) == <<Lit("output_"), Uuid(u), Lit(".wav")>>

\* the name tempfile.NamedTemporaryFile(suffix='.txt') picks
TempFileName(k) == <<Lit("tmp"), Rand(k), Lit(".txt")>>

-----------------------------------------------------------------------------
(* The filesystem *)

\* sizes the engine may leave in its output file
Sizes == {0, MIN_SIZE - 1, MIN_SIZE}

TooSmallOffByOne(file_size) == file_size < MIN_SIZE - 1
\* file_size < 1000
TooSmall(file_size) == file_size < MIN_SIZE

\* os.unlink(path) inside try/except: pass
Unlink(path) == {f \in tmp_files : f.path # path}

\* os.path.exists(output_file)
OutputExists(output_file) == \E f \in out_files : f.path = output_file

\* os.path.getsize(output_file)
GetSize(output_file) == (CHOOSE f \in out_files : f.path = output_file).size

\* not os.path.exists(PIPER_PATH)
PiperMissing == ~piper.exists

ModelMissingNever == FALSE
\* not os.path.exists(MODEL_PATH)
ModelMissing == ~model_exists

\* whether the operating system can start PIPER_PATH
CanExecute == IS_WINDOWS \/ piper.x

-----------------------------------------------------------------------------
(* /synthesize *)

Fresh(k) ==
    [pc |-> "idle", id |-> k, text |-> <<>>, output_file |-> NoPath,
     temp_file |-> NoPath, temp_file_path |-> NoPath, response |-> NoResponse,
     child |-> "none", e_stderr |-> <<>>, fault |-> "none",
     spawns |-> 0, log |-> <<>>, removed |-> {}, stdin |-> 0]

\* the handler's local state moves to pc with the step logged
Step(w, pc, step) == [req[w] EXCEPT !.pc = pc, !.log = Append(@, step)]

\* an exception reaches the except clauses: the response is decided, finally is next
Fail(w, step, fault, response) ==
    [req[w] EXCEPT !.pc = "finally", !.log = Append(@, step), !.fault = fault,
                   !.response = response]

\* lines 69-75: the two guards, before anything is created, then the output name
Validate(w, text) ==
    /\ req[w].pc = "idle"
    /\ started' = started + 1
    /\ LET r == [Fresh(started + 1) EXCEPT !.text = text, !.log = <<"validate">>]
       IN  IF IsBlank(text)
           THEN /\ req' = [req EXCEPT ![w] =
                      [r EXCEPT !.pc = "done", !.fault = "InvalidInput",
                                !.response = HTTPException(400, <<Lit("Text cannot be empty")>>)]]
                /\ uuids' = uuids
           ELSE IF TooLong(text)
           THEN /\ req' = [req EXCEPT ![w] =
                      [r EXCEPT !.pc = "done", !.fault = "InvalidInput",
                                !.response = HTTPException(400,
                                    <<Lit("Text too long (max 1000 characters)")>>)]]
                /\ uuids' = uuids
           ELSE /\ req' = [req EXCEPT ![w] =
                      [r EXCEPT !.pc = "named", !.output_file = OutputFileName(uuids + 1)]]
                /\ uuids' = uuids + 1
    /\ UNCHANGED <<IS_WINDOWS, exc_str, piper, model_exists, tmp_files, out_files,
                   rands, health>>

\* line 78: NamedTemporaryFile(delete=False) creates the file
CreateTemp(w) ==
    /\ req[w].pc = "named"
    /\ rands' = rands + 1
    /\ tmp_files' = tmp_files \cup
          {[path |-> TempFileName(rands + 1), creator |-> req[w].id, content |-> <<>>]}
    /\ req' = [req EXCEPT ![w] =
          [Step(w, "created", "create_temp") EXCEPT !.temp_file = TempFileName(rands + 1)]]
    /\ UNCHANGED <<IS_WINDOWS, exc_str, piper, model_exists, out_files,
                   uuids, started, health>>

\* lines 79-80 and the close at the end of the with block; a fault here (an
\* OSError from the write or the flush) is raised before the try block is entered
WriteTemp(w, ok) ==
    /\ req[w].pc = "created"
    /\ IF ok
       THEN /\ tmp_files' = {IF f.path = req[w].temp_file
                             THEN [f EXCEPT !.content = req[w].text] ELSE f : f \in tmp_files}
            /\ req' = [req EXCEPT ![w] =
                  [Step(w, "try", "write_temp") EXCEPT !.temp_file_path = req[w].temp_file]]
       ELSE /\ tmp_files' = tmp_files
            /\ req' = [req EXCEPT ![w] =
                  [Step(w, "done", "write_temp") EXCEPT !.fault = "InternalError",
                                                       !.response = Unhandled]]
    /\ UNCHANGED <<IS_WINDOWS, exc_str, piper, model_exists, out_files,
                   uuids, rands, started, health>>

\* lines 84-85
CheckPiper(w) ==
    /\ req[w].pc = "try"
    /\ req' = [req EXCEPT ![w] =
          IF PiperMissing
          THEN Fail(w, "check_piper", "EngineUnavailable", RaisedInTry(HTTPException(500,
                    <<Lit("Piper executable not found at ")>> \o PIPER_PATH)))
          ELSE Step(w, "piper_ok", "check_piper")]
    /\ UNCHANGED <<IS_WINDOWS, exc_str, piper, model_exists, tmp_files, out_files,
                   uuids, rands, started, health>>

\* lines 86-87
CheckModel(w) ==
    /\ req[w].pc = "piper_ok"
    /\ req' = [req EXCEPT ![w] =
          IF ModelMissing
          THEN Fail(w, "check_model", "EngineUnavailable", RaisedInTry(HTTPException(500,
                    <<Lit("Model file not found at ")>> \o MODEL_PATH)))
          ELSE Step(w, "model_ok", "check_model")]
    /\ UNCHANGED <<IS_WINDOWS, exc_str, piper, model_exists, tmp_files, out_files,
                   uuids, rands, started, health>>

\* lines 90-94: os.chmod(PIPER_PATH, 0o755); a failure is only printed
Chmod(w) ==
    /\ req[w].pc = "model_ok"
    /\ piper' = IF ~IS_WINDOWS /\ piper.owned THEN [piper EXCEPT !.x = TRUE] ELSE piper
    /\ req' = [req EXCEPT ![w] =
          IF IS_WINDOWS THEN [req[w] EXCEPT !.pc = "ready"] ELSE Step(w, "ready", "chmod")]
    /\ UNCHANGED <<IS_WINDOWS, exc_str, model_exists, tmp_files, out_files,
                   uuids, rands, started, health>>

\* lines 97-98: open the temp file for reading and start the engine on it
Spawn(w) ==
    /\ req[w].pc = "ready"
    /\ req' = [req EXCEPT ![w] =
          IF ~\E f \in tmp_files : f.path = req[w].temp_file_path
          THEN Fail(w, "open_input", "InternalError",
                    ExceptException(<<Lit("[Errno 2] No such file or directory: ")>>
                                    \o req[w].temp_file_path))
          ELSE IF ~CanExecute
          THEN [Fail(w, "spawn", "InternalError",
                     ExceptException(<<Lit("[Errno 13] Permission denied: ")>> \o PIPER_PATH))
                EXCEPT !.stdin = (CHOOSE f \in tmp_files : f.path = req[w].temp_file_path).creator]
          ELSE [Step(w, "running", "spawn") EXCEPT
                   !.child = "running", !.spawns = @ + 1,
                   !.stdin = (CHOOSE f \in tmp_files : f.path = req[w].temp_file_path).creator]]
    /\ UNCHANGED <<IS_WINDOWS, exc_str, piper, model_exists, tmp_files, out_files,
                   uuids, rands, started, health>>

\* the engine creates the file named by --output_file
EngineWrites(w, size) ==
    /\ req[w].child = "running"
    /\ ~OutputExists(req[w].output_file)
    /\ out_files' = out_files \cup
          {[path |-> req[w].output_file, creator |-> req[w].id, size |-> size]}
    /\ UNCHANGED <<IS_WINDOWS, exc_str, piper, model_exists, tmp_files,
                   uuids, rands, started, req, health>>

ChildAfterTimeoutLeftRunning == "running"
\* subprocess.run kills the child and waits for it before raising TimeoutExpired
ChildAfterTimeout == "killed"

\* lines 98-105 and 140-141: the child is still running after 30 seconds
RunTimesOut(w) ==
    /\ req[w].pc = "running"
    /\ req' = [req EXCEPT ![w] =
          [Fail(w, "timeout", "SynthesisTimeout", ExceptTimeoutExpired)
           EXCEPT !.child = ChildAfterTimeout]]
    /\ UNCHANGED <<IS_WINDOWS, exc_str, piper, model_exists, tmp_files, out_files,
                   uuids, rands, started, health>>

\* lines 98-108 and 142-146: the child exits; check=True raises on a non-zero
\* status, and the two prints decode the captured streams
RunCompletes(w, code, stdout, stderr) ==
    /\ req[w].pc = "running"
    /\ req' = [req EXCEPT ![w] =
          IF code # 0
          THEN [Fail(w, "exit_nonzero", "EngineExecutionFailed",
                     ExceptCalledProcessError(req[w].output_file, code, stderr))
                EXCEPT !.child = "exited", !.e_stderr = stderr]
          ELSE IF ~Decode(stdout).ok \/ ~Decode(stderr).ok
          THEN [Fail(w, "exit_zero", "InternalError",
                     ExceptException(<<Lit("'utf-8' codec can't decode byte")>>))
                EXCEPT !.child = "exited"]
          ELSE [Step(w, "ran_ok", "exit_zero") EXCEPT !.child = "exited"]]
    /\ UNCHANGED <<IS_WINDOWS, exc_str, piper, model_exists, tmp_files, out_files,
                   uuids, rands, started, health>>

\* lines 111-112
CheckOutputExists(w) ==
    /\ req[w].pc = "ran_ok"
    /\ req' = [req EXCEPT ![w] =
          IF ~OutputExists(req[w].output_file)
          THEN Fail(w, "check_exists", "OutputMissing",
                    RaisedInTry(HTTPException(500, <<Lit("Audio file was not generated")>>)))
          ELSE Step(w, "exists_ok", "check_exists")]
    /\ UNCHANGED <<IS_WINDOWS, exc_str, piper, model_exists, tmp_files, out_files,
                   uuids, rands, started, health>>

\* lines 114-118
CheckSize(w) ==
    /\ req[w].pc = "exists_ok"
    /\ req' = [req EXCEPT ![w] =
          IF TooSmall(GetSize(req[w].output_file))
          THEN Fail(w, "check_size", "OutputSuspect", RaisedInTry(HTTPException(500,
                    <<Lit("Generated audio file appears to be empty or corrupted")>>)))
          ELSE Step(w, "size_ok", "check_size")]
    /\ UNCHANGED <<IS_WINDOWS, exc_str, piper, model_exists, tmp_files, out_files,
                   uuids, rands, started, health>>

\* the files an unlink of path by w removes, as [path, creator]
Removed(path) == {[path |-> f.path, creator |-> f.creator] : f \in {g \in tmp_files : g.path = path}}

\* lines 121-128: the pause, then the first unlink of the temp file
UnlinkBeforeReturn(w) ==
    /\ req[w].pc = "size_ok"
    /\ tmp_files' = Unlink(req[w].temp_file_path)
    /\ req' = [req EXCEPT ![w] =
          [Step(w, "unlinked", "unlink") EXCEPT
              !.removed = @ \cup Removed(req[w].temp_file_path)]]
    /\ UNCHANGED <<IS_WINDOWS, exc_str, piper, model_exists, out_files,
                   uuids, rands, started, health>>

\* lines 130-138
Return(w) ==
    /\ req[w].pc = "unlinked"
    /\ uuids' = uuids + 1
    /\ req' = [req EXCEPT ![w] =
          [Step(w, "finally", "respond") EXCEPT
              !.response = FileResponse(req[w].output_file, uuids + 1)]]
    /\ UNCHANGED <<IS_WINDOWS, exc_str, piper, model_exists, tmp_files, out_files,
                   rands, started, health>>

\* lines 147-152
Finally(w) ==
    /\ req[w].pc = "finally"
    /\ tmp_files' = Unlink(req[w].temp_file_path)
    /\ req' = [req EXCEPT ![w] =
          [Step(w, "done", "finally") EXCEPT
              !.removed = @ \cup Removed(req[w].temp_file_path)]]
    /\ UNCHANGED <<IS_WINDOWS, exc_str, piper, model_exists, out_files,
                   uuids, rands, started, health>>

-----------------------------------------------------------------------------
(* /health *)

NoHealth ==
    [status |-> "none", piper_found |-> FALSE, piper_executable |-> FALSE,
     model_found |-> FALSE, piper_path |-> <<>>, model_path |-> <<>>]

\* os.access(PIPER_PATH, os.X_OK)
Access == piper.x

\* lines 48-50
PiperExecutable(piper_exists) ==
    IF ~IS_WINDOWS /\ piper_exists THEN Access ELSE TRUE

HealthStatusIgnoringModel(piper_exists, model_found, piper_executable) ==
    IF piper_exists /\ piper_executable THEN "healthy" ELSE "unhealthy"
\* line 52
HealthStatus(piper_exists, model_found, piper_executable) ==
    IF piper_exists /\ model_found /\ piper_executable THEN "healthy" ELSE "unhealthy"

\* lines 41-64; the platform name, the working directory and its listing are
\* read and reported too, and are left out of the response here
HealthCheck ==
    /\ health' =
          [status |-> HealthStatus(piper.exists, model_exists, PiperExecutable(piper.exists)),
           piper_found |-> piper.exists,
           piper_executable |-> PiperExecutable(piper.exists),
           model_found |-> model_exists,
           piper_path |-> PIPER_PATH,
           model_path |-> MODEL_PATH]
    /\ UNCHANGED <<IS_WINDOWS, exc_str, piper, model_exists, tmp_files, out_files,
                   uuids, rands, started, req>>

-----------------------------------------------------------------------------
(* The system *)

Init ==
    /\ IS_WINDOWS \in BOOLEAN
    /\ exc_str \in {"empty", "status_detail"}
    /\ piper \in {p \in [exists : BOOLEAN, x : BOOLEAN, owned : BOOLEAN] :
                     /\ ~p.exists => ~p.owned
                     /\ p.x => p.owned}
    /\ model_exists \in BOOLEAN
    /\ tmp_files = {}
    /\ out_files = {}
    /\ uuids = 0
    /\ rands = 0
    /\ started = 0
    /\ req = [w \in Workers |-> Fresh(0)]
    /\ health = NoHealth

Next ==
    \/ \E w \in Workers, text \in ConcurrentTexts : Validate(w, text)
    \/ \E w \in Workers : CreateTemp(w)
    \/ \E w \in Workers, ok \in BOOLEAN : WriteTemp(w, ok)
    \/ \E w \in Workers : CheckPiper(w)
    \/ \E w \in Workers : CheckModel(w)
    \/ \E w \in Workers : Chmod(w)
    \/ \E w \in Workers : Spawn(w)
    \/ \E w \in Workers, size \in Sizes : EngineWrites(w, size)
    \/ \E w \in Workers : RunTimesOut(w)
    \/ \E w \in Workers, code \in {0, 1}, stdout \in {<<>>, <<255>>}, stderr \in ByteStrings :
          RunCompletes(w, code, stdout, stderr)
    \/ \E w \in Workers : CheckOutputExists(w)
    \/ \E w \in Workers : CheckSize(w)
    \/ \E w \in Workers : UnlinkBeforeReturn(w)
    \/ \E w \in Workers : Return(w)
    \/ \E w \in Workers : Finally(w)
    \/ HealthCheck

Spec == Init /\ [][Next]_vars

\* one worker thread, serving every text of Texts
NextOne ==
    \/ \E text \in Texts : Validate("w1", text)
    \/ CreateTemp("w1")
    \/ \E ok \in BOOLEAN : WriteTemp("w1", ok)
    \/ CheckPiper("w1")
    \/ CheckModel("w1")
    \/ Chmod("w1")
    \/ Spawn("w1")
    \/ \E size \in Sizes : EngineWrites("w1", size)
    \/ RunTimesOut("w1")
    \/ \E code \in {0, 1}, stdout \in {<<>>, <<255>>}, stderr \in ByteStrings :
          RunCompletes("w1", code, stdout, stderr)
    \/ CheckOutputExists("w1")
    \/ CheckSize("w1")
    \/ UnlinkBeforeReturn("w1")
    \/ Return("w1")
    \/ Finally("w1")
    \/ HealthCheck

SpecOne == Init /\ [][NextOne]_vars

-----------------------------------------------------------------------------
(* Properties *)

Received(w) == req[w].pc # "idle"
Finished(w) == req[w].pc = "done"
Decided(w) == req[w].pc \in {"finally", "done"}
InLog(w, step) == \E i \in 1..Len(req[w].log) : req[w].log[i] = step
TempExists(path) == \E f \in tmp_files : f.path = path

\* C1: every temporary text file a request created is gone when the request has
\* finished, whichever exit path it took after creating the file.
C1_TempDeletedOnEveryExit ==
    \A w \in Workers :
        (Finished(w) /\ req[w].temp_file # NoPath) => ~TempExists(req[w].temp_file)

Rejectable(text) == TextLen(Strip(text)) = 0 \/ TextLen(text) > MAX_TEXT_LEN

\* C2: a text that is blank after trimming, or longer than 1000 characters, is
\* answered with 400 in a step that creates no temporary file, draws no output
\* name, writes no output file, changes no permission and starts no process; and
\* the request does nothing afterwards.
C2_RejectedWithoutEffects ==
    [][\A w \in Workers :
          /\ (req[w].pc = "idle" /\ req'[w].pc # "idle" /\ Rejectable(req'[w].text)) =>
                /\ req'[w].response.status = 400
                /\ req'[w].pc = "done"
                /\ req'[w].output_file = NoPath /\ req'[w].temp_file = NoPath
                /\ req'[w].child = "none" /\ req'[w].spawns = 0
                /\ UNCHANGED <<piper, model_exists, tmp_files, out_files, uuids, rands>>
          /\ (req[w].pc = "done" /\ req[w].response.status = 400) => req'[w] = req[w]
      ]_vars

C2_Witness ==
    \E w \in Workers :
        /\ Finished(w) /\ req[w].response.status = 400
        /\ TextLen(req[w].text) > MAX_TEXT_LEN /\ Strip(req[w].text) # <<>>
        /\ tmp_files = {} /\ out_files = {}

Passed(w) == Received(w) /\ req[w].response.status # 400
Rejected(w) == Received(w) /\ req[w].response.status = 400

\* C3 as claimed: a text passes validation exactly when its trimmed length is
\* between 1 and 1000, and is rejected with 400 exactly when the trimmed text is
\* empty or longer than 1000.
C3_BoundAfterTrim ==
    \A w \in Workers :
        Received(w) =>
            /\ Passed(w) <=> (TextLen(Strip(req[w].text)) >= 1
                              /\ TextLen(Strip(req[w].text)) <= MAX_TEXT_LEN)
            /\ Rejected(w) <=> (TextLen(Strip(req[w].text)) = 0
                                \/ TextLen(Strip(req[w].text)) > MAX_TEXT_LEN)

\* C3 as amended: a text passes validation exactly when its trimmed text is not
\* empty and its untrimmed length is at most 1000, and is rejected with 400
\* exactly when the trimmed text is empty or the untrimmed text is longer than 1000.
C3_BoundBeforeTrim ==
    \A w \in Workers :
        Received(w) =>
            /\ Passed(w) <=> (TextLen(Strip(req[w].text)) >= 1
                              /\ TextLen(req[w].text) <= MAX_TEXT_LEN)
            /\ Rejected(w) <=> (TextLen(Strip(req[w].text)) = 0
                                \/ TextLen(req[w].text) > MAX_TEXT_LEN)

\* a text of exactly 1000 characters with whitespace to trim has passed
C3_Witness ==
    \E w \in Workers :
        /\ Passed(w) /\ req[w].temp_file # NoPath
        /\ TextLen(req[w].text) = MAX_TEXT_LEN
        /\ Strip(req[w].text) # req[w].text

\* C4: a success response is given only after the engine exited with status zero
\* and the artifact was found to exist with at least 1000 bytes; a request whose
\* artifact is smaller than 1000 bytes answers 500 and returns no file.
C4_SuccessOnlyAfterChecks ==
    \A w \in Workers :
        /\ req[w].response.status = 200 =>
              /\ req[w].child = "exited" /\ InLog(w, "exit_zero")
              /\ InLog(w, "check_exists") /\ InLog(w, "check_size")
              /\ OutputExists(req[w].output_file)
              /\ GetSize(req[w].output_file) >= MIN_SIZE
              /\ req[w].response.file = req[w].output_file
        /\ (Decided(w) /\ OutputExists(req[w].output_file)
                       /\ GetSize(req[w].output_file) < MIN_SIZE) =>
              /\ req[w].response.status = 500
              /\ req[w].response.file = NoPath

\* an artifact of exactly 1000 bytes has been returned
C4_Witness ==
    \E w \in Workers :
        /\ Finished(w) /\ req[w].response.status = 200
        /\ GetSize(req[w].output_file) = MIN_SIZE

\* C5: the caller sees the triggering failure with its own detail, and the
\* generic "Error: ..." detail only for faults outside the named classes.
C5_OriginalFailureReported ==
    \A w \in Workers :
        Decided(w) =>
            /\ (req[w].fault = "EngineUnavailable" /\ InLog(w, "check_model")) =>
                  req[w].response.detail = <<Lit("Model file not found at ")>> \o MODEL_PATH
            /\ (req[w].fault = "EngineUnavailable" /\ ~InLog(w, "check_model")) =>
                  req[w].response.detail = <<Lit("Piper executable not found at ")>> \o PIPER_PATH
            /\ req[w].fault = "OutputMissing" =>
                  req[w].response.detail = <<Lit("Audio file was not generated")>>
            /\ req[w].fault = "OutputSuspect" =>
                  req[w].response.detail =
                      <<Lit("Generated audio file appears to be empty or corrupted")>>
            /\ (req[w].response.detail # <<>> /\ req[w].response.detail[1] = Lit("Error: ")) =>
                  req[w].fault = "InternalError"

\* C6: after a timeout the request answers 500 "Speech synthesis timed out",
\* returns no file, and its child has been killed; no finished request has a
\* child still running.
C6_TimeoutKillsChild ==
    \A w \in Workers :
        /\ req[w].fault = "SynthesisTimeout" =>
              /\ req[w].response.status = 500
              /\ req[w].response.detail = <<Lit("Speech synthesis timed out")>>
              /\ req[w].response.file = NoPath
              /\ req[w].child = "killed"
        /\ Finished(w) => req[w].child # "running"

\* a request timed out and finished while a partial artifact is on disk
C6_Witness ==
    \E w \in Workers :
        /\ Finished(w) /\ req[w].fault = "SynthesisTimeout"
        /\ OutputExists(req[w].output_file)

\* C7: after a non-zero exit the request answers 500 with a detail that holds
\* the captured standard-error text when there is some and the fallback
\* description when there is none; the artifact checks are not run and no file
\* is returned.
C7_NonZeroExitCarriesStderr ==
    \A w \in Workers :
        InLog(w, "exit_nonzero") =>
            /\ req[w].response.status = 500
            /\ req[w].response.detail[1] = Lit("Piper execution failed: ")
            /\ req[w].e_stderr # <<>> =>
                  Contains(req[w].response.detail, Decode(req[w].e_stderr).s)
            /\ req[w].e_stderr = <<>> =>
                  Contains(req[w].response.detail, StrCalledProcessError(req[w].output_file, 1))
            /\ ~InLog(w, "check_exists") /\ ~InLog(w, "check_size")
            /\ req[w].response.file = NoPath

\* C8: a /health call answers "healthy" exactly when the engine path exists, the
\* model path exists and, off Windows, the engine is executable, and "unhealthy"
\* otherwise; it changes no file and no permission and starts no process.
C8_HealthReadOnly ==
    [][HealthCheck =>
          /\ health'.status \in {"healthy", "unhealthy"}
          /\ health'.status = "healthy" <=>
                (piper.exists /\ model_exists /\ (~IS_WINDOWS => piper.x))
          /\ UNCHANGED <<piper, model_exists, tmp_files, out_files, req>>
      ]_vars

\* /health answered "healthy" and a request's engine is running
C8_Witness ==
    /\ health.status = "healthy"
    /\ \E w \in Workers : req[w].child = "running"

\* the steps of one request, in the order of the handler
Order ==
    <<"validate", "create_temp", "write_temp", "check_piper", "check_model", "chmod",
      "open_input", "spawn", "timeout", "exit_nonzero", "exit_zero", "check_exists",
      "check_size", "unlink", "respond", "finally">>

Rank(step) == CHOOSE i \in 1..Len(Order) : Order[i] = step

SuccessLog ==
    <<"validate", "create_temp", "write_temp", "check_piper", "check_model">>
    \o (IF IS_WINDOWS THEN <<>> ELSE <<"chmod">>)
    \o <<"spawn", "exit_zero", "check_exists", "check_size", "unlink", "respond">>

\* C9: the steps of a request happen in the handler's order, a success response
\* follows all of them, at most one process is started, and with the engine or
\* the model absent the request ends with 500 and no process is started.
C9_StepsInOrder ==
    \A w \in Workers :
        /\ \A i \in 1..(Len(req[w].log) - 1) :
              Rank(req[w].log[i]) < Rank(req[w].log[i + 1])
        /\ req[w].response.status = 200 =>
              SubSeq(req[w].log, 1, Len(SuccessLog)) = SuccessLog
        /\ req[w].spawns <= 1
        /\ (~piper.exists \/ ~model_exists) =>
              /\ req[w].spawns = 0 /\ req[w].child = "none" /\ ~InLog(w, "spawn")
              /\ (Finished(w) /\ InLog(w, "write_temp") /\ req[w].temp_file_path # NoPath) =>
                    req[w].response.status = 500

\* the model file is absent, and a request has ended with 500 without a process
C9_Witness ==
    \E w \in Workers :
        /\ piper.exists /\ ~model_exists
        /\ Finished(w) /\ InLog(w, "check_model")
        /\ req[w].response.status = 500 /\ req[w].spawns = 0

InFlight(w) == req[w].pc \notin {"idle", "done"}

\* C10: a request reads and deletes only the temporary file it created, and two
\* requests in flight never hold the same temporary path or the same output path.
C10_NoInterference ==
    /\ \A w \in Workers :
          /\ \A d \in req[w].removed : d.creator = req[w].id
          /\ req[w].stdin # 0 => req[w].stdin = req[w].id
    /\ \A w, v \in Workers :
          (w # v /\ InFlight(w) /\ InFlight(v)) =>
              /\ req[w].output_file # req[v].output_file
              /\ req[w].temp_file # NoPath => req[w].temp_file # req[v].temp_file

\* one request has made both of its deletions while the other's file is on disk
C10_Witness ==
    \E w, v \in Workers :
        /\ w # v
        /\ Finished(w) /\ req[w].response.status = 200 /\ req[w].removed # {}
        /\ req[v].child = "running" /\ TempExists(req[v].temp_file_path)

====
